---- MODULE Spec2Model ----
(***************************************************************************)
(* Model of package generator of jokruger/pwgen: one call of Generate,     *)
(* from the Options it is given to the (string, error) it returns.         *)
(* Characters are one-character strings, a []rune or a Go string is a      *)
(* sequence of them.  Go indices are 0-based: out[k] of the code is        *)
(* out[k+1] here.                                                          *)
(***************************************************************************)
EXTENDS Integers, Sequences, FiniteSets, TLC

(***************************************************************************)
(* Bounds of the model.                                                    *)
(***************************************************************************)
\* Largest Length, Segments and SegmentLength of the modelled calls.
MaxLen == 3
\* Largest minimum count of the modelled calls.
MaxMin == 2
\* Number of outcomes of one randomRune draw that are explored.
MaxDraw == 2
\* Largest difference of two consecutive bytes returned by rand.Read.
MaxStride == 1

(***************************************************************************)
(* Constants of the package.                                               *)
(***************************************************************************)
FormatGeneric == "generic"
FormatAppKey == "appkey"
FormatGUID == "guid"

lowerChars ==
  << "a", "b", "c", "d", "e", "f", "g", "h", "i", "j", "k", "l", "m",
     "n", "o", "p", "q", "r", "s", "t", "u", "v", "w", "x", "y", "z" >>
upperChars ==
  << "A", "B", "C", "D", "E", "F", "G", "H", "I", "J", "K", "L", "M",
     "N", "O", "P", "Q", "R", "S", "T", "U", "V", "W", "X", "Y", "Z" >>
numberChars == << "0", "1", "2", "3", "4", "5", "6", "7", "8", "9" >>
symbolChars ==
  << "!", "@", "#", "$", "%", "^", "&", "*", "(", ")", "-", "_", "=", "+",
     "[", "]", "{", "}", ";", ":", ",", ".", "?", "/", "<", ">", "~" >>

hexdigits ==
  << "0", "1", "2", "3", "4", "5", "6", "7", "8", "9",
     "a", "b", "c", "d", "e", "f" >>

\* The error values Generate returns; NoErr is Go's nil error.
NoErr == "nil"
ErrUnknownFormat == "unknown format"
ErrLength == "length must be > 0"
ErrSegments == "segments must be > 0"
ErrSegmentLength == "segment-length must be > 0"
ErrMinLowerDisabled == "min-lower specified but lowercase disabled"
ErrMinUpperDisabled == "min-upper specified but uppercase disabled"
ErrMinNumberDisabled == "min-number specified but numbers disabled"
ErrMinSymbolDisabled == "min-symbol specified but symbols disabled"
ErrNoClasses == "no character classes enabled"
ErrNegativeMinimum == "minimum counts cannot be negative"
ErrMinimaExceedLength == "sum of minimum counts exceeds requested length"
ErrEmptySet == "empty character set"
\* The error of the secure random source (crypto/rand), returned verbatim.
ErrEntropy == "crypto/rand: read failed"

(***************************************************************************)
(* generateGeneric: totalMin, the sum of the slice of minima.              *)
(***************************************************************************)
RECURSIVE SumSeq(_)
SumSeq(s) == IF s = << >> THEN 0 ELSE Head(s) + SumSeq(Tail(s))

(***************************************************************************)
(* collectClassesAndValidate                                               *)
(***************************************************************************)
\* The sets and mins slices after the four toggle blocks, when none returns.
CollectedSets(opt) ==
  (IF opt.UseLower THEN << lowerChars >> ELSE << >>) \o
  (IF opt.UseUpper THEN << upperChars >> ELSE << >>) \o
  (IF opt.UseNumber THEN << numberChars >> ELSE << >>) \o
  (IF opt.UseSymbol THEN << symbolChars >> ELSE << >>)

CollectedMins(opt) ==
  (IF opt.UseLower THEN << opt.MinLower >> ELSE << >>) \o
  (IF opt.UseUpper THEN << opt.MinUpper >> ELSE << >>) \o
  (IF opt.UseNumber THEN << opt.MinNumber >> ELSE << >>) \o
  (IF opt.UseSymbol THEN << opt.MinSymbol >> ELSE << >>)

\* Mutant: the test len(sets) == 0 is missing.
collectClassesAndValidate_NoEmptyCheck(opt) ==
  IF ~opt.UseLower /\ opt.MinLower > 0 THEN ErrMinLowerDisabled
  ELSE IF ~opt.UseUpper /\ opt.MinUpper > 0 THEN ErrMinUpperDisabled
  ELSE IF ~opt.UseNumber /\ opt.MinNumber > 0 THEN ErrMinNumberDisabled
  ELSE IF ~opt.UseSymbol /\ opt.MinSymbol > 0 THEN ErrMinSymbolDisabled
  ELSE IF \E k \in DOMAIN CollectedMins(opt) : CollectedMins(opt)[k] < 0
       THEN ErrNegativeMinimum
  ELSE NoErr

\* Mutant: the uppercase block has no else branch for a disabled class.
collectClassesAndValidate_UpperUnchecked(opt) ==
  IF ~opt.UseLower /\ opt.MinLower > 0 THEN ErrMinLowerDisabled
  ELSE IF ~opt.UseNumber /\ opt.MinNumber > 0 THEN ErrMinNumberDisabled
  ELSE IF ~opt.UseSymbol /\ opt.MinSymbol > 0 THEN ErrMinSymbolDisabled
  ELSE IF Len(CollectedSets(opt)) = 0 THEN ErrNoClasses
  ELSE IF \E k \in DOMAIN CollectedMins(opt) : CollectedMins(opt)[k] < 0
       THEN ErrNegativeMinimum
  ELSE NoErr

\* The error collectClassesAndValidate returns, NoErr when it returns none.
collectClassesAndValidate(opt) ==
  IF ~opt.UseLower /\ opt.MinLower > 0 THEN ErrMinLowerDisabled
  ELSE IF ~opt.UseUpper /\ opt.MinUpper > 0 THEN ErrMinUpperDisabled
  ELSE IF ~opt.UseNumber /\ opt.MinNumber > 0 THEN ErrMinNumberDisabled
  ELSE IF ~opt.UseSymbol /\ opt.MinSymbol > 0 THEN ErrMinSymbolDisabled
  ELSE IF Len(CollectedSets(opt)) = 0 THEN ErrNoClasses
  ELSE IF \E k \in DOMAIN CollectedMins(opt) : CollectedMins(opt)[k] < 0
       THEN ErrNegativeMinimum
  ELSE NoErr

\* concatClasses: the rune slices merged in order.
RECURSIVE concatClasses(_)
concatClasses(classes) ==
  IF classes = << >> THEN << >>
  ELSE Head(classes) \o concatClasses(Tail(classes))

(***************************************************************************)
(* The secure random source.                                               *)
(***************************************************************************)
\* rand.Int(rand.Reader, n): the values it can return, [0, n).
RandInt_Exclusive(n) == 0 .. (n - 2)

RandInt(n) == 0 .. (n - 1)

\* The outcomes of rand.Int explored for a randomRune draw over a set of n
\* runes: all of them when n <= MaxDraw, else MaxDraw evenly spaced ones.
RuneDraws(n) ==
  IF n <= MaxDraw THEN RandInt(n)
  ELSE {(k * n + (n \div 2) - 1) \div MaxDraw : k \in 0 .. (MaxDraw - 1)}

\* rand.Read(b) for the 16 bytes of a UUID: the byte slices explored, every
\* byte value at every position, consecutive bytes MaxStride apart at most.
UUIDBytes == 16
ByteValues == 256
RandRead ==
  {[k \in 1 .. UUIDBytes |-> (s + (k - 1) * t) % ByteValues] :
     s \in 0 .. (ByteValues - 1), t \in 0 .. MaxStride}

(***************************************************************************)
(* generateUUIDv4                                                          *)
(***************************************************************************)
\* Mutant: the variant bits of b[8] are left as drawn.
SetVersionVariant_VersionOnly(bytes) ==
  [bytes EXCEPT ![7] = (bytes[7] % 16) + 64]

\* b[6] = (b[6] & 0x0F) | 0x40 ; b[8] = (b[8] & 0x3F) | 0x80
SetVersionVariant(bytes) ==
  [bytes EXCEPT ![7] = (bytes[7] % 16) + 64, ![9] = (bytes[9] % 64) + 128]

\* hex(x): the two lowercase hexadecimal digits of a byte.
hex(x) == << hexdigits[(x \div 16) + 1], hexdigits[(x % 16) + 1] >>

\* The loop over b that writes hex(v) and a hyphen after bytes 3, 5, 7, 9;
\* k is the 0-based index of the next byte.
RECURSIVE RenderUUID(_, _)
RenderUUID(bytes, k) ==
  IF k >= Len(bytes) THEN << >>
  ELSE hex(bytes[k + 1]) \o
       (IF k \in {3, 5, 7, 9} THEN << "-" >> ELSE << >>) \o
       RenderUUID(bytes, k + 1)

(***************************************************************************)
(* generateAppKey: the loop that writes core into the builder, k the       *)
(* 0-based index of the next rune of core.                                 *)
(***************************************************************************)
\* Mutant: the test i > 0 is missing, a dash is written before the first rune.
RECURSIVE WriteSegments_LeadingDash(_, _, _)
WriteSegments_LeadingDash(str, segLen, k) ==
  IF k >= Len(str) THEN << >>
  ELSE (IF k % segLen = 0 THEN << "-" >> ELSE << >>) \o
       << str[k + 1] >> \o WriteSegments_LeadingDash(str, segLen, k + 1)

RECURSIVE WriteSegments(_, _, _)
WriteSegments(str, segLen, k) ==
  IF k >= Len(str) THEN << >>
  ELSE (IF k > 0 /\ k % segLen = 0 THEN << "-" >> ELSE << >>) \o
       << str[k + 1] >> \o WriteSegments(str, segLen, k + 1)

(***************************************************************************)
(* State of one call of Generate.                                          *)
(***************************************************************************)
VARIABLES
  o,          \* the Options Generate is called with
  pc,         \* where the call is
  tmp,        \* the Options generateGeneric is called with
  classSets,  \* generateGeneric: the enabled rune slices
  minima,     \* generateGeneric: their minimum counts
  out,        \* generateGeneric: the rune slice under construction
  ci,         \* generateGeneric: 0-based index of the minima loop over classSets
  c,          \* generateGeneric: counter of the inner minima loop
  i,          \* shuffleRunes: the loop index
  composed,   \* the slice as it was handed to shuffleRunes
  b,          \* generateUUIDv4: the 16 bytes
  result,     \* the string Generate returns
  err,        \* the error Generate returns
  randFailed  \* whether a draw of the secure random source has failed

vars ==
  << o, pc, tmp, classSets, minima, out, ci, c, i, composed, b, result, err,
     randFailed >>

\* Default values of the flags that a format does not read.
DefaultLength == 16
DefaultSegments == 4
DefaultSegmentLength == 4

Option(f, len, use, min, seg, segLen) ==
  [ Format |-> f, Length |-> len,
    UseLower |-> use[1], UseUpper |-> use[2],
    UseNumber |-> use[3], UseSymbol |-> use[4],
    MinLower |-> min[1], MinUpper |-> min[2],
    MinNumber |-> min[3], MinSymbol |-> min[4],
    Segments |-> seg, SegmentLength |-> segLen ]

Toggles == BOOLEAN \X BOOLEAN \X BOOLEAN \X BOOLEAN
AllOn == << TRUE, TRUE, TRUE, TRUE >>
AllOff == << FALSE, FALSE, FALSE, FALSE >>
NoMins == << 0, 0, 0, 0 >>

\* Any four minima of -1, 0 or 1, whatever the toggles.
AnyMins == (-1 .. 1) \X (-1 .. 1) \X (-1 .. 1) \X (-1 .. 1)

\* The minima up to MaxMin that generateGeneric accepts for the toggles use
\* and the length len.
ValidMins(use, len) ==
  {m \in (0 .. MaxMin) \X (0 .. MaxMin) \X (0 .. MaxMin) \X (0 .. MaxMin) :
     /\ \A k \in 1 .. 4 : ~use[k] => m[k] = 0
     /\ m[1] + m[2] + m[3] + m[4] <= len}

\* Calls of length 0 or 1 with any toggles and any minima.
ShortCalls ==
  {Option(FormatGeneric, len, use, min, DefaultSegments, DefaultSegmentLength) :
     len \in 0 .. 1, use \in Toggles, min \in AnyMins}
  \cup
  {Option(FormatAppKey, DefaultLength, use, min, seg, segLen) :
     seg \in 0 .. 1, segLen \in 0 .. 1, use \in Toggles, min \in AnyMins}

\* Calls of length 2 to MaxLen that pass every check of generateGeneric; the
\* app keys are those of 2 to MaxLen characters and the key of 2 segments of 2,
\* with every class, every class but the symbols, the symbols alone, or
\* letters, digits and symbols.
LongKeyToggles ==
  { AllOn, << TRUE, TRUE, TRUE, FALSE >>, << FALSE, FALSE, FALSE, TRUE >>,
    << TRUE, FALSE, TRUE, TRUE >> }
LongSizes ==
  {sz \in (1 .. MaxLen) \X (1 .. MaxLen) :
     sz[1] * sz[2] >= 2 /\ sz[1] * sz[2] <= MaxLen}
  \cup {<< 2, 2 >>}
LongCalls ==
  UNION {
    {Option(FormatGeneric, len, use, min,
            DefaultSegments, DefaultSegmentLength) :
       min \in ValidMins(use, len)} :
    len \in 2 .. MaxLen, use \in Toggles \ {AllOff}}
  \cup
  UNION {
    {Option(FormatAppKey, DefaultLength, use, min, sz[1], sz[2]) :
       min \in ValidMins(use, sz[1] * sz[2])} :
    sz \in LongSizes, use \in LongKeyToggles}

\* Calls for a UUID: the other fields at their defaults or at values that the
\* other formats reject (length 0, no class, negative minima, minima above
\* the length or on disabled classes, no segments), in every combination.
\* Then a call with a format that Generate does not know.
GuidCalls ==
  {Option(FormatGUID, len, use, min, sz[1], sz[2]) :
     len \in {0, DefaultLength}, use \in {AllOn, AllOff},
     min \in {NoMins, << -1, -1, -1, -1 >>, << 1, 1, 1, 1 >>},
     sz \in {<< DefaultSegments, DefaultSegmentLength >>, << 0, 0 >>}}
OtherCalls ==
  {Option("uuid", DefaultLength, AllOn, NoMins,
          DefaultSegments, DefaultSegmentLength)}

Calls == ShortCalls \cup LongCalls \cup GuidCalls \cup OtherCalls

Init ==
  /\ o \in Calls
  /\ pc = "Generate"
  /\ tmp = o
  /\ classSets = << >>
  /\ minima = << >>
  /\ out = << >>
  /\ ci = 0
  /\ c = 0
  /\ i = 0
  /\ composed = << >>
  /\ b = << >>
  /\ result = << >>
  /\ err = NoErr
  /\ randFailed = FALSE

\* Generate returns (str, e).
Return(str, e) ==
  /\ pc' = "done"
  /\ result' = str
  /\ err' = e

\* Mutant: the total counts the dashes too.
Total_WithDashes(opt) == opt.Segments * opt.SegmentLength + (opt.Segments - 1)

\* generateAppKey: total := o.Segments * o.SegmentLength
Total(opt) == opt.Segments * opt.SegmentLength

\* Mutant: minima that fill the length exactly are rejected.
MinimaExceedLength_OrEqual(totalMin, len) == totalMin >= len

\* generateGeneric: the test totalMin > o.Length
MinimaExceedLength(totalMin, len) == totalMin > len

\* Mutant: the minima are drawn from all the enabled classes.
MinimaSet_AnyClass(sets, k) == concatClasses(sets)

\* generateGeneric: the set of iteration k (0-based) of the minima loop.
MinimaSet(sets, k) == sets[k + 1]

\* Mutant: the remainder is drawn from the four classes, enabled or not.
FillSet_EveryClass(sets) ==
  lowerChars \o upperChars \o numberChars \o symbolChars

\* generateGeneric: all, the set the remainder is drawn from.
FillSet(sets) == concatClasses(sets)

\* Mutant: the length is checked before the switch, for every format.
Generate_LengthFirst ==
  /\ pc = "Generate"
  /\ IF o.Length <= 0
       THEN Return(<< >>, ErrLength)
     ELSE IF o.Format = FormatGUID
       THEN pc' = "generateUUIDv4" /\ UNCHANGED << result, err >>
     ELSE IF o.Format = FormatAppKey
       THEN pc' = "generateAppKey" /\ UNCHANGED << result, err >>
     ELSE IF o.Format = FormatGeneric
       THEN pc' = "generateGeneric" /\ UNCHANGED << result, err >>
     ELSE Return(<< >>, ErrUnknownFormat)
  /\ UNCHANGED << o, tmp, classSets, minima, out, ci, c, i, composed, b,
                  randFailed >>

(***************************************************************************)
(* Generate: the switch on o.Format.                                       *)
(***************************************************************************)
Generate ==
  /\ pc = "Generate"
  /\ IF o.Format = FormatGUID
       THEN pc' = "generateUUIDv4" /\ UNCHANGED << result, err >>
     ELSE IF o.Format = FormatAppKey
       THEN pc' = "generateAppKey" /\ UNCHANGED << result, err >>
     ELSE IF o.Format = FormatGeneric
       THEN pc' = "generateGeneric" /\ UNCHANGED << result, err >>
     ELSE Return(<< >>, ErrUnknownFormat)
  /\ UNCHANGED << o, tmp, classSets, minima, out, ci, c, i, composed, b,
                  randFailed >>

(***************************************************************************)
(* generateAppKey, up to its call of generateGeneric.                      *)
(***************************************************************************)
generateAppKey ==
  /\ pc = "generateAppKey"
  /\ IF o.Segments <= 0
       THEN Return(<< >>, ErrSegments) /\ UNCHANGED tmp
     ELSE IF o.SegmentLength <= 0
       THEN Return(<< >>, ErrSegmentLength) /\ UNCHANGED tmp
     ELSE /\ tmp' = [o EXCEPT !.Length = Total(o),
                              !.Format = FormatGeneric]
          /\ pc' = "generateGeneric"
          /\ UNCHANGED << result, err >>
  /\ UNCHANGED << o, classSets, minima, out, ci, c, i, composed, b,
                  randFailed >>

(***************************************************************************)
(* generateGeneric, up to the first draw: the checks of the length, of the *)
(* classes and of the sum of the minima.                                   *)
(***************************************************************************)
generateGeneric ==
  /\ pc = "generateGeneric"
  /\ IF tmp.Length <= 0
       THEN Return(<< >>, ErrLength) /\ UNCHANGED << classSets, minima >>
     ELSE IF collectClassesAndValidate(tmp) # NoErr
       THEN /\ Return(<< >>, collectClassesAndValidate(tmp))
            /\ UNCHANGED << classSets, minima >>
     ELSE /\ classSets' = CollectedSets(tmp)
          /\ minima' = CollectedMins(tmp)
          /\ IF MinimaExceedLength(SumSeq(CollectedMins(tmp)), tmp.Length)
               THEN Return(<< >>, ErrMinimaExceedLength)
               ELSE pc' = "minima" /\ UNCHANGED << result, err >>
  /\ UNCHANGED << o, tmp, out, ci, c, i, composed, b, randFailed >>

(***************************************************************************)
(* randomRune(set): what it can return.  rand.Int either returns one of    *)
(* the explored indices or fails, and its error is passed on.              *)
(***************************************************************************)
randomRune(set) ==
  IF Len(set) = 0
    THEN {[r |-> "", e |-> ErrEmptySet, failed |-> FALSE]}
    ELSE {[r |-> set[n + 1], e |-> NoErr, failed |-> FALSE] :
            n \in RuneDraws(Len(set))}
         \cup {[r |-> "", e |-> ErrEntropy, failed |-> TRUE]}

\* One draw of generateGeneric from set: append the rune, or return the error.
Draw(set) ==
  \E d \in randomRune(set) :
    /\ randFailed' = (randFailed \/ d.failed)
    /\ IF d.e # NoErr
         THEN Return(<< >>, d.e) /\ UNCHANGED out
         ELSE out' = Append(out, d.r) /\ UNCHANGED << pc, result, err >>

(***************************************************************************)
(* generateGeneric: one step of the loops that satisfy the minima.         *)
(***************************************************************************)
MinimaStep ==
  /\ pc = "minima"
  /\ IF ci >= Len(classSets)
       THEN /\ pc' = "fill"
            /\ UNCHANGED << out, ci, c, result, err, randFailed >>
     ELSE IF c >= minima[ci + 1]
       THEN /\ ci' = ci + 1
            /\ c' = 0
            /\ UNCHANGED << pc, out, result, err, randFailed >>
     ELSE /\ Draw(MinimaSet(classSets, ci))
          /\ c' = c + 1
          /\ UNCHANGED ci
  /\ UNCHANGED << o, tmp, classSets, minima, i, composed, b >>

(***************************************************************************)
(* generateGeneric: one step of the loop that fills the remainder, then    *)
(* the call of shuffleRunes.                                               *)
(***************************************************************************)
FillStep ==
  /\ pc = "fill"
  /\ IF Len(out) < tmp.Length
       THEN Draw(FillSet(classSets)) /\ UNCHANGED << i, composed >>
       ELSE /\ pc' = "shuffle"
            /\ i' = Len(out) - 1
            /\ composed' = out
            /\ UNCHANGED << out, result, err, randFailed >>
  /\ UNCHANGED << o, tmp, classSets, minima, ci, c, b >>

\* r[i], r[j] = r[j], r[i] with 0-based i and j.
\* Mutant: r[i] = r[j] alone, the old r[i] is lost.
Swap_Overwrite(r, x, y) == [r EXCEPT ![x + 1] = r[y + 1]]

Swap(r, x, y) == [r EXCEPT ![x + 1] = r[y + 1], ![y + 1] = r[x + 1]]

(***************************************************************************)
(* shuffleRunes: one iteration of its loop.  The error of rand.Int is      *)
(* dropped; when the source fails jBig is nil and jBig.Int64() panics.     *)
(* After the loop generateGeneric returns string(out), to Generate or to   *)
(* generateAppKey.                                                         *)
(***************************************************************************)
shuffleRunes ==
  /\ pc = "shuffle"
  /\ IF i > 0
       THEN \/ \E j \in RandInt(i + 1) :
                 /\ out' = Swap(out, i, j)
                 /\ i' = i - 1
                 /\ UNCHANGED << pc, result, err, randFailed >>
            \/ /\ randFailed' = TRUE
               /\ pc' = "panic"
               /\ UNCHANGED << out, i, result, err >>
       ELSE /\ IF o.Format = FormatAppKey
                 THEN pc' = "segments" /\ UNCHANGED << result, err >>
                 ELSE Return(out, NoErr)
            /\ UNCHANGED << out, i, randFailed >>
  /\ UNCHANGED << o, tmp, classSets, minima, ci, c, composed, b >>

(***************************************************************************)
(* generateAppKey, after generateGeneric has returned core without error.  *)
(***************************************************************************)
generateAppKeySegments ==
  /\ pc = "segments"
  /\ Return(WriteSegments(out, o.SegmentLength, 0), NoErr)
  /\ UNCHANGED << o, tmp, classSets, minima, out, ci, c, i, composed, b,
                  randFailed >>

(***************************************************************************)
(* generateUUIDv4: rand.Read, then the version, the variant and the text.  *)
(***************************************************************************)
generateUUIDv4Read ==
  /\ pc = "generateUUIDv4"
  /\ \/ \E bytes \in RandRead :
          /\ b' = bytes
          /\ pc' = "uuidRender"
          /\ UNCHANGED << result, err, randFailed >>
     \/ /\ randFailed' = TRUE
        /\ Return(<< >>, ErrEntropy)
        /\ UNCHANGED b
  /\ UNCHANGED << o, tmp, classSets, minima, out, ci, c, i, composed >>

generateUUIDv4Render ==
  /\ pc = "uuidRender"
  /\ b' = SetVersionVariant(b)
  /\ Return(RenderUUID(SetVersionVariant(b), 0), NoErr)
  /\ UNCHANGED << o, tmp, classSets, minima, out, ci, c, i, composed,
                  randFailed >>

Next ==
  \/ Generate
  \/ generateAppKey
  \/ generateGeneric
  \/ MinimaStep
  \/ FillStep
  \/ shuffleRunes
  \/ generateAppKeySegments
  \/ generateUUIDv4Read
  \/ generateUUIDv4Render

Spec == Init /\ [][Next]_vars

(***************************************************************************)
(* Vocabulary of the properties.                                           *)
(***************************************************************************)
Done == pc = "done"
Succeeded == pc = "done" /\ err = NoErr
Failed == pc = "done" /\ err # NoErr /\ result = << >>
GenericOrAppKey == o.Format \in {FormatGeneric, FormatAppKey}
\* collectClassesAndValidate has returned the pool without an error.
PoolValidated == classSets # << >>

\* The characters of a rune slice, as a set.
CharSet(set) == {set[k] : k \in DOMAIN set}
LowerSet == CharSet(lowerChars)
UpperSet == CharSet(upperChars)
NumberSet == CharSet(numberChars)
SymbolSet == CharSet(symbolChars)
HexSet == CharSet(hexdigits)

\* Number of characters of s that belong to the set chars.
CountIn(s, chars) == Cardinality({k \in DOMAIN s : s[k] \in chars})

\* The four classes: character set, toggle and minimum of the call.
ClassNames == {"lower", "upper", "number", "symbol"}
ClassChars(cl) ==
  CASE cl = "lower" -> LowerSet [] cl = "upper" -> UpperSet
    [] cl = "number" -> NumberSet [] cl = "symbol" -> SymbolSet
ClassUsed(cl) ==
  CASE cl = "lower" -> o.UseLower [] cl = "upper" -> o.UseUpper
    [] cl = "number" -> o.UseNumber [] cl = "symbol" -> o.UseSymbol
ClassMin(cl) ==
  CASE cl = "lower" -> o.MinLower [] cl = "upper" -> o.MinUpper
    [] cl = "number" -> o.MinNumber [] cl = "symbol" -> o.MinSymbol
ClassDisabledErr(cl) ==
  CASE cl = "lower" -> ErrMinLowerDisabled [] cl = "upper" -> ErrMinUpperDisabled
    [] cl = "number" -> ErrMinNumberDisabled
    [] cl = "symbol" -> ErrMinSymbolDisabled
\* The order in which collectClassesAndValidate looks at the classes.
ClassRank(cl) ==
  CASE cl = "lower" -> 1 [] cl = "upper" -> 2
    [] cl = "number" -> 3 [] cl = "symbol" -> 4

InEnabledClass(ch) ==
  \E cl \in ClassNames : ClassUsed(cl) /\ ch \in ClassChars(cl)
InDisabledClass(ch) ==
  \E cl \in ClassNames : ~ClassUsed(cl) /\ ch \in ClassChars(cl)

\* The 0-based positions of an app key that hold a separator.
IsSeparator(p) ==
  o.Format = FormatAppKey /\ p % (o.SegmentLength + 1) = o.SegmentLength
\* The returned string without the characters at the separator positions.
RECURSIVE DropSeparators(_, _)
DropSeparators(str, p) ==
  IF p >= Len(str) THEN << >>
  ELSE (IF IsSeparator(p) THEN << >> ELSE << str[p + 1] >>) \o
       DropSeparators(str, p + 1)
Payload == DropSeparators(result, 0)

\* The length the call asks for: Length, or Segments * SegmentLength.
TargetLength ==
  IF o.Format = FormatAppKey THEN o.Segments * o.SegmentLength ELSE o.Length

ActiveMinimaSum ==
  (IF o.UseLower THEN o.MinLower ELSE 0) + (IF o.UseUpper THEN o.MinUpper ELSE 0)
  + (IF o.UseNumber THEN o.MinNumber ELSE 0)
  + (IF o.UseSymbol THEN o.MinSymbol ELSE 0)

(***************************************************************************)
(* C1: when Generate succeeds for format generic or appkey, the returned   *)
(* string holds at least MinLower lowercase letters, MinUpper uppercase    *)
(* letters, MinNumber digits and MinSymbol symbols.                        *)
(***************************************************************************)
C1_MinimaSatisfied ==
  (Succeeded /\ GenericOrAppKey) =>
    \A cl \in ClassNames : CountIn(result, ClassChars(cl)) >= ClassMin(cl)

\* A call with a minimum of one digit and two fill characters that returned
\* exactly one digit.
C1_Witness ==
  /\ Succeeded /\ o.Format = FormatGeneric
  /\ o.Length = 3 /\ o.MinNumber = 1 /\ o.UseLower
  /\ CountIn(result, NumberSet) = 1
  /\ CountIn(result, LowerSet) = 2

(***************************************************************************)
(* C2 as stated: when Generate succeeds for format generic or appkey,      *)
(* every character of the returned string belongs to an enabled class and  *)
(* none belongs to a disabled class.                                       *)
(***************************************************************************)
C2_Original ==
  (Succeeded /\ GenericOrAppKey) =>
    \A k \in DOMAIN result :
      InEnabledClass(result[k]) /\ ~InDisabledClass(result[k])

(***************************************************************************)
(* C2 amended: when Generate succeeds for format generic or appkey, every  *)
(* character of the returned string other than the separator dashes of an  *)
(* app key belongs to an enabled class and to no disabled class.           *)
(***************************************************************************)
C2_EnabledClassesOnly ==
  (Succeeded /\ GenericOrAppKey) =>
    \A k \in DOMAIN result :
      ~IsSeparator(k - 1) =>
        InEnabledClass(result[k]) /\ ~InDisabledClass(result[k])

\* An app key of two segments made with the symbols disabled: its separator
\* is a character of the symbol set.
C2_Witness ==
  /\ Succeeded /\ o.Format = FormatAppKey
  /\ o.Segments = 2 /\ o.SegmentLength = 1 /\ ~o.UseSymbol
  /\ o.UseLower /\ o.UseNumber
  /\ Len(result) = 3 /\ result[2] = "-"
  /\ result[1] \in LowerSet /\ result[3] \in NumberSet

(***************************************************************************)
(* C3: when Generate succeeds, the returned string has Length characters   *)
(* for format generic and Segments * SegmentLength + (Segments - 1)        *)
(* characters for format appkey; a call that passes every check and whose  *)
(* draws succeed does succeed.                                             *)
(***************************************************************************)
C3_DerivedLength ==
  /\ (Succeeded /\ o.Format = FormatGeneric) => Len(result) = o.Length
  /\ (Succeeded /\ o.Format = FormatAppKey) =>
       Len(result) = o.Segments * o.SegmentLength + (o.Segments - 1)
  /\ (Done /\ GenericOrAppKey /\ PoolValidated /\ ~randFailed
        /\ ActiveMinimaSum <= TargetLength) => Succeeded

\* An app key of three segments of one character: five characters.
C3_Witness ==
  /\ Succeeded /\ o.Format = FormatAppKey
  /\ o.Segments = 3 /\ o.SegmentLength = 1
  /\ Len(result) = 5

HasNegativeMinimum == \E cl \in ClassNames : ClassMin(cl) < 0
AllTogglesOff == \A cl \in ClassNames : ~ClassUsed(cl)
\* The classes that have a minimum > 0 while their toggle is off.
DisabledWithMinimum == {cl \in ClassNames : ~ClassUsed(cl) /\ ClassMin(cl) > 0}
\* The checks made before collectClassesAndValidate is called pass.
LengthChecksPass ==
  IF o.Format = FormatAppKey
    THEN o.Segments > 0 /\ o.SegmentLength > 0 /\ TargetLength > 0
    ELSE o.Length > 0
\* The call has not gone past the checks of generateGeneric.
NoDrawMade == pc \in {"Generate", "generateAppKey", "generateGeneric", "done"}

(***************************************************************************)
(* C4: for format generic or appkey, if any of the four minimum counts is  *)
(* negative, whether or not its class is toggled on, Generate fails and    *)
(* returns no password.  (Which error it fails with is left open: the      *)
(* length and segment checks come first in the code.)                      *)
(***************************************************************************)
C4_NegativeMinimumRejected ==
  (Done /\ GenericOrAppKey /\ HasNegativeMinimum) => Failed

(***************************************************************************)
(* C5 as stated: for format generic or appkey, whenever all four toggles   *)
(* are off Generate fails with the error 'no character classes enabled',   *)
(* whatever the other fields are.                                          *)
(***************************************************************************)
C5_Original ==
  (Done /\ GenericOrAppKey /\ AllTogglesOff) => Failed /\ err = ErrNoClasses

(***************************************************************************)
(* C5 amended: for format generic or appkey, whenever all four toggles are *)
(* off Generate makes no draw and fails; the error is 'no character        *)
(* classes enabled' when the length checks pass (Length > 0 for generic;   *)
(* Segments > 0, SegmentLength > 0 and their product > 0 for appkey) and   *)
(* no minimum is > 0.                                                      *)
(***************************************************************************)
C5_NoClassesEnabled ==
  (GenericOrAppKey /\ AllTogglesOff) =>
    /\ NoDrawMade
    /\ Done => Failed
    /\ (Done /\ LengthChecksPass /\ DisabledWithMinimum = {}) =>
         err = ErrNoClasses

\* An app key call with every class off and a negative minimum, rejected for
\* having no class.
C5_Witness ==
  /\ Done /\ o.Format = FormatAppKey /\ AllTogglesOff
  /\ o.MinLower = -1 /\ o.MinSymbol = 0
  /\ err = ErrNoClasses /\ result = << >>

(***************************************************************************)
(* C6 as stated: for format generic or appkey, if some class has a minimum *)
(* > 0 while its toggle is off, Generate fails with the disabled-class     *)
(* error of such a class and produces no string.                           *)
(***************************************************************************)
C6_Original ==
  (Done /\ GenericOrAppKey /\ DisabledWithMinimum # {}) =>
    /\ Failed
    /\ \E cl \in DisabledWithMinimum : err = ClassDisabledErr(cl)

(***************************************************************************)
(* C6 amended: for format generic or appkey, if some class has a minimum   *)
(* > 0 while its toggle is off, Generate makes no draw, fails and produces *)
(* no string; when the length checks pass (Length > 0 for generic;         *)
(* Segments > 0, SegmentLength > 0 and their product > 0 for appkey) the   *)
(* error is the disabled-class error of the first such class in the order  *)
(* lower, upper, number, symbol.                                           *)
(***************************************************************************)
C6_DisabledClassMinimum ==
  (GenericOrAppKey /\ DisabledWithMinimum # {}) =>
    /\ NoDrawMade
    /\ Done => Failed
    /\ (Done /\ LengthChecksPass) =>
         \E cl \in DisabledWithMinimum :
           /\ \A other \in DisabledWithMinimum : ClassRank(cl) <= ClassRank(other)
           /\ err = ClassDisabledErr(cl)

\* Two disabled classes with a minimum, and a negative minimum on an enabled
\* one: the error names the first disabled class.
C6_Witness ==
  /\ Done /\ o.Format = FormatGeneric
  /\ o.UseLower /\ o.MinLower = -1
  /\ ~o.UseUpper /\ o.MinUpper = 1
  /\ ~o.UseSymbol /\ o.MinSymbol = 1
  /\ err = ErrMinUpperDisabled /\ result = << >>

(***************************************************************************)
(* C7 as stated: with a validated class pool and target length L, if the   *)
(* sum of the active classes' minima exceeds L Generate fails with the     *)
(* minima-exceed-length error; if the sum equals L and no draw fails,      *)
(* Generate succeeds and the returned string holds exactly the minimum     *)
(* number of characters of each active class.                              *)
(***************************************************************************)
C7_Original ==
  (Done /\ GenericOrAppKey /\ PoolValidated) =>
    /\ ActiveMinimaSum > TargetLength =>
         Failed /\ err = ErrMinimaExceedLength
    /\ (ActiveMinimaSum = TargetLength /\ ~randFailed) =>
         /\ Succeeded
         /\ \A cl \in ClassNames :
              ClassUsed(cl) => CountIn(result, ClassChars(cl)) = ClassMin(cl)

(***************************************************************************)
(* C7 amended: with a validated class pool and target length L, if the sum *)
(* of the active classes' minima exceeds L Generate fails with the         *)
(* minima-exceed-length error; if the sum equals L and no draw fails,      *)
(* Generate succeeds and the returned string, the separator dashes of an   *)
(* app key left out, holds exactly the minimum number of characters of     *)
(* each active class.                                                      *)
(***************************************************************************)
C7_MinimaAgainstLength ==
  (Done /\ GenericOrAppKey /\ PoolValidated) =>
    /\ ActiveMinimaSum > TargetLength =>
         Failed /\ err = ErrMinimaExceedLength
    /\ (ActiveMinimaSum = TargetLength /\ ~randFailed) =>
         /\ Succeeded
         /\ \A cl \in ClassNames :
              ClassUsed(cl) => CountIn(Payload, ClassChars(cl)) = ClassMin(cl)

\* An app key of two segments whose minima fill it: one letter, one symbol,
\* and the separator as a second character of the symbol set.
C7_Witness ==
  /\ Succeeded /\ o.Format = FormatAppKey
  /\ o.Segments = 2 /\ o.SegmentLength = 1
  /\ o.UseLower /\ o.MinLower = 1 /\ o.UseSymbol /\ o.MinSymbol = 1
  /\ CountIn(result, SymbolSet) = 2
  /\ CountIn(Payload, SymbolSet) = 1

(***************************************************************************)
(* C8: whatever the 16 random bytes, the string generateUUIDv4 returns has *)
(* 36 characters: hyphens at the 0-based positions 8, 13, 18 and 23,       *)
(* lowercase hexadecimal digits everywhere else, '4' at position 14 and    *)
(* one of '8', '9', 'a', 'b' at position 19.                               *)
(***************************************************************************)
C8_UUIDLayout ==
  (Succeeded /\ o.Format = FormatGUID) =>
    /\ Len(result) = 36
    /\ \A p \in 0 .. 35 :
         IF p \in {8, 13, 18, 23} THEN result[p + 1] = "-"
         ELSE result[p + 1] \in HexSet
    /\ result[14 + 1] = "4"
    /\ result[19 + 1] \in {"8", "9", "a", "b"}

\* The UUID made from sixteen bytes 0xff: ffffffff-ffff-4fff-bfff-ffffffffffff.
C8_Witness ==
  /\ Succeeded /\ o.Format = FormatGUID
  /\ result[1] = "f" /\ result[13] = "f" /\ result[14] = "-"
  /\ result[15] = "4" /\ result[16] = "f"
  /\ result[20] = "b" /\ result[21] = "f" /\ result[36] = "f"

(***************************************************************************)
(* C9: if the secure random source fails at a draw made during a call of   *)
(* Generate, the call ends by returning an error: it does not panic and it *)
(* does not return a string.                                               *)
(***************************************************************************)
C9_EntropyFailureReturned ==
  randFailed => (pc # "panic" /\ (Done => Failed /\ err = ErrEntropy))

(***************************************************************************)
(* C10: for format appkey, the returned string is Segments groups of       *)
(* SegmentLength characters joined by single dashes: a dash stands before  *)
(* the character of flat index k exactly when k > 0 and k mod              *)
(* SegmentLength = 0, and the characters other than these dashes are the   *)
(* shuffled flat sequence, in its order.                                   *)
(***************************************************************************)
C10_SegmentsOfShuffled ==
  (Succeeded /\ o.Format = FormatAppKey) =>
    /\ Len(out) = o.Segments * o.SegmentLength
    /\ Len(result) = Len(out) + (o.Segments - 1)
    /\ \A k \in 0 .. (Len(out) - 1) :
         result[k + (k \div o.SegmentLength) + 1] = out[k + 1]
    /\ \A p \in 0 .. (Len(result) - 1) :
         (p % (o.SegmentLength + 1) = o.SegmentLength) => result[p + 1] = "-"

\* An app key of two segments of two characters whose shuffled sequence
\* itself starts with a dash.
C10_Witness ==
  /\ Succeeded /\ o.Format = FormatAppKey
  /\ o.Segments = 2 /\ o.SegmentLength = 2
  /\ Len(result) = 5 /\ result[3] = "-"
  /\ out[1] = "-" /\ out[3] # "-"

(***************************************************************************)
(* C11: when the format is guid, Generate validates nothing: whatever the  *)
(* other fields are (Length <= 0, every class off, negative minima, minima *)
(* on disabled classes, Segments <= 0), the call goes through the UUID     *)
(* branch only, builds no class pool and draws no rune, and unless         *)
(* rand.Read fails it returns a UUID and no error.                         *)
(***************************************************************************)
C11_GuidIgnoresOptions ==
  (o.Format = FormatGUID) =>
    /\ pc \in {"Generate", "generateUUIDv4", "uuidRender", "done"}
    /\ classSets = << >> /\ minima = << >> /\ out = << >>
    /\ (Done /\ ~randFailed) =>
         /\ Succeeded
         /\ Len(result) = 36
         /\ result[9] = "-" /\ result[15] = "4"
    /\ (Done /\ randFailed) => Failed /\ err = ErrEntropy

\* A UUID returned for a call with length 0, no class, negative minima and no
\* segments.
C11_Witness ==
  /\ Succeeded /\ o.Format = FormatGUID
  /\ o.Length = 0 /\ AllTogglesOff /\ o.MinLower = -1
  /\ o.Segments = 0 /\ o.SegmentLength = 0
  /\ Len(result) = 36

(***************************************************************************)
(* C12: shuffleRunes keeps the multiset of characters.  From the moment    *)
(* the composed slice is handed to it, after each swap, when its loop has  *)
(* ended (or has panicked) and in the string that is returned, the slice   *)
(* has the length of the composed sequence and holds every character as    *)
(* many times as the composed sequence does, whatever was drawn.           *)
(***************************************************************************)
SameMultiset(s, t) ==
  /\ Len(s) = Len(t)
  /\ \A k \in DOMAIN s : CountIn(s, {s[k]}) = CountIn(t, {s[k]})

C12_ShufflePreservesMultiset ==
  /\ (pc \in {"shuffle", "segments", "panic"}) => SameMultiset(out, composed)
  /\ (Succeeded /\ GenericOrAppKey) => SameMultiset(Payload, composed)

\* The loop has ended on three or more characters, one of them twice, in an
\* order that is not the composed one.
C12_Witness ==
  /\ pc = "shuffle" /\ i = 0
  /\ Len(composed) >= 3
  /\ out # composed
  /\ Cardinality(CharSet(composed)) < Len(composed)
  /\ Cardinality(CharSet(composed)) > 1

(***************************************************************************)
(* C13: shuffleRunes is a Fisher-Yates shuffle.  Its loop starts at the    *)
(* last index with the composed slice, each iteration swaps position i     *)
(* with a position j of 0 .. i and moves i down by one, every j of 0 .. i  *)
(* can be drawn, and the loop is left at i = 0 only.  For a composed       *)
(* slice of L distinct characters the slices the loop can end with are     *)
(* then all the permutations of it (the L!, at the start) that keep the    *)
(* positions already settled, and they are as many as the draw sequences   *)
(* that remain, so no two draw sequences end with the same slice.          *)
(***************************************************************************)
RECURSIVE Factorial(_)
Factorial(n) == IF n > 1 THEN n * Factorial(n - 1) ELSE 1

\* The slices the loop of shuffleRunes can end with, from slice r at index k,
\* and the number of draw sequences that lead there.
RECURSIVE ShuffleFrom(_, _)
ShuffleFrom(r, k) ==
  IF k > 0
    THEN UNION {ShuffleFrom(Swap(r, k, j), k - 1) : j \in RandInt(k + 1)}
    ELSE {r}

RECURSIVE DrawSequences(_)
DrawSequences(k) ==
  IF k > 0 THEN Cardinality(RandInt(k + 1)) * DrawSequences(k - 1) ELSE 1

Distinct(s) == Cardinality(CharSet(s)) = Len(s)
PermutationsOf(s) ==
  {[k \in 1 .. Len(s) |-> s[p[k]]] : p \in Permutations(1 .. Len(s))}
Exchanged(r, x, y) ==
  [k \in 1 .. Len(r) |-> IF k = x THEN r[y] ELSE IF k = y THEN r[x] ELSE r[k]]

\* In the loop: every j of 0 .. i can be drawn, and on distinct characters
\* the final slices are the permutations that keep the settled positions,
\* one for each remaining draw sequence.
ShuffleIsBijection ==
  (pc = "shuffle") =>
    /\ i >= 1 =>
         \A j \in 0 .. i :
           ENABLED (shuffleRunes /\ out' = Exchanged(out, i + 1, j + 1))
    /\ Distinct(composed) =>
         /\ ShuffleFrom(out, i) =
              {q \in PermutationsOf(composed) :
                 \A k \in (i + 2) .. Len(out) : q[k] = out[k]}
         /\ Cardinality(ShuffleFrom(out, i)) = DrawSequences(i)
         /\ DrawSequences(i) = Factorial(i + 1)

\* The steps into, of and out of the loop.
ShuffleStep ==
  /\ (pc # "shuffle" /\ pc' = "shuffle") =>
       i' = Len(out') - 1 /\ out' = composed'
  /\ (pc = "shuffle" /\ pc' = "shuffle") =>
       /\ i >= 1 /\ i' = i - 1
       /\ \E j \in 0 .. i : out' = Exchanged(out, i + 1, j + 1)
  /\ (pc = "shuffle" /\ pc' \notin {"shuffle", "panic"}) => i = 0

C13_FisherYates == []ShuffleIsBijection /\ [][ShuffleStep]_vars

\* The loop has ended on three or more distinct characters in reverse order.
C13_Witness ==
  /\ pc = "shuffle" /\ i = 0
  /\ Len(composed) >= 3 /\ Distinct(composed)
  /\ \A k \in 1 .. Len(out) : out[k] = composed[Len(out) + 1 - k]

====
